---- MODULE Spec2Model ----
(***************************************************************************)
(* A model of the command server of src/main.cpp: the accept loop of       *)
(* main(), the socket handoff to the worker started by std::async, the     *)
(* worker's connection() loop and connection_command().                    *)
(*                                                                         *)
(* Bytes are ASCII codes.  A descriptor is identified with the connection  *)
(* it was accepted for (connections are numbered in the order the clients  *)
(* connect, which is the order accept() returns them), NoSocket is the -1  *)
(* of the code.  Worker w is the worker started for connection w.          *)
(*                                                                         *)
(* The library is libstdc++ on glibc: condition_variable::wait_for works   *)
(* on the mutex of the unique_lock and leaves the lock's owns flag alone,  *)
(* unique_lock::unlock throws std::system_error when the owns flag is      *)
(* false, and unlocking a plain mutex from another thread is not checked.  *)
(***************************************************************************)
EXTENDS Integers, Sequences, FiniteSets, TLC

VARIABLES
    running,        \* std::atomic<bool> running
    mainPc,         \* position of main()
    threads,        \* std::vector<std::future<void>> threads (worker ids)
    reapIdx,        \* iterator i of the reap pass (index into threads)
    joinIdx,        \* position of the final range-for over threads
    listenOpen,     \* the listening socket s is open
    client_socket,  \* content of the stack slot of main's client_socket
    scopeOf,        \* worker whose handoff scope (client_socket, cm, cl, cv) is live, 0 if none
    clOwns,         \* owns flag of the unique_lock cl in its stack slot
    cvNotified,     \* the waiter on cv has been notified
    wpc,            \* position of each worker
    my_socket,      \* my_socket of each worker
    line,           \* std::string line of each worker
    buffer,         \* the bytes of the last recv of each worker
    bi,             \* index i of the for loop over buffer
    dispatched,     \* the lines each worker passed to connection_command
    wlog,           \* what each worker wrote with WRITE_LOG
    nconn,          \* connections the clients opened so far
    naccept,        \* connections accept() returned so far
    inq,            \* bytes written by the peer and not yet received, per connection
    peerClosed,     \* the peer closed its end, per connection
    quota,          \* writes the peer may still do, per connection
    closes,         \* close() calls per descriptor
    sent,           \* send() calls per descriptor, in order: [by, data]
    proc,           \* bytes taken by the for loop per descriptor, in order: [by, chr]
    argv,           \* the arguments of the command line, argv[1] onwards
    options,        \* std::vector<CommandLineOption> options of cmd_run
    error_message,  \* what Parse wrote to error_message, in order
    rc,             \* what Parse returned: "true" or "false", "unset" before it returns
    host_ptr,       \* host_ptr after the host was looked up: "null" or "addr"
    addr,           \* the sockaddr_in given to bind(): <<addr>>, <<>> before
    mlog            \* what main() wrote with WRITE_LOG before its loop

vars == << running, mainPc, threads, reapIdx, joinIdx, listenOpen, client_socket,
           scopeOf, clOwns, cvNotified, wpc, my_socket, line, buffer, bi,
           dispatched, wlog, nconn, naccept, inq, peerClosed, quota, closes, sent, proc,
           argv, options, error_message, rc, host_ptr, addr, mlog >>

mainVars == << mainPc, threads, reapIdx, joinIdx, listenOpen >>
handoffVars == << client_socket, scopeOf, clOwns, cvNotified >>
workerVars == << wpc, my_socket, line, buffer, bi, dispatched, wlog >>
peerVars == << nconn, inq, peerClosed, quota >>
logVars == << closes, sent, proc >>
setupVars == << argv, options, error_message, rc, host_ptr, addr, mlog >>

\* ---------------------------------------------------------------- bounds
MaxConn == 2
MaxSends == 1
LineSends == 3
MaxPieces == 6
\* arguments on a command line, and the largest occurs_value of an option
MaxArgs == 3
MaxOccurs == 2

\* ------------------------------------------------------------- constants
NoSocket == -1
BufferSize == 256
CR == 13
LF == 10
SP == 32

Conns == 1..MaxConn
Workers == 1..MaxConn
Fds == Conns \cup {NoSocket}

\* The writes a peer of the server chooses from: the line "Ex" CR, and "z", BEL, LF
Menu == { <<69, 120, CR>>, <<122, 7, LF>> }

\* The writes the peer of a single connection chooses from: "ex", "dir", a
\* space, CR, LF and BEL
LineMenu == { <<101, 120>>, <<100, 105, 114>>, <<SP>>, <<CR>>, <<LF>>, <<7>> }

\* The pieces the lines handed to connection_command are made of: a space,
\* "dir", "DIR" and "eX" (pieces that touch make the tokens in no table, such
\* as "dirDIR")
LinePieces == { <<SP>>, <<100, 105, 114>>, <<68, 73, 82>>, <<101, 88>> }

\* The bytes that end a line: CR, LF, and CR LF received together
LineEnds == { <<CR>>, <<LF>>, <<CR, LF>> }

PROMPT0 == <<62, 62>>
PROMPT == <<CR, LF, 62, 62>>
CRLF == <<CR, LF>>

\* -------------------------------------------------------- pure functions
\* isprint, the lower bound forgotten
IsPrint_NoLowerBound(chr) == chr <= 126

IsPrint(chr) == chr >= 32 /\ chr <= 126

IsTerminator(chr) == chr = CR \/ chr = LF

\* toupper that leaves the token as it was typed
ToUpper_AsTyped(str) == str

ToUpper(str) ==
    [k \in DOMAIN str |-> IF str[k] >= 97 /\ str[k] <= 122 THEN str[k] - 32 ELSE str[k]]

\* dir(): "Directory..." and std::endl
DirOutput == <<68, 105, 114, 101, 99, 116, 111, 114, 121, 46, 46, 46, LF>>

TokenEX == <<69, 88>>
TokenDIR == <<68, 73, 82>>

RECURSIVE SkipDelims(_)
SkipDelims(s) ==
    IF s # <<>> /\ Head(s) = SP THEN SkipDelims(Tail(s)) ELSE s

RECURSIVE TokenLen(_)
TokenLen(s) ==
    IF s = <<>> \/ Head(s) = SP THEN 0 ELSE 1 + TokenLen(Tail(s))

\* strtok_r(line.data(), " ", &tmp_ptr) until it returns null
RECURSIVE Tokens(_)
Tokens(s) ==
    LET t == SkipDelims(s) IN
    IF t = <<>> THEN <<>>
    ELSE LET n == TokenLen(t) IN
         <<SubSeq(t, 1, n)>> \o Tokens(SubSeq(t, n + 1, Len(t)))

\* The table lookup and call for one token: what it writes and whether it is ex
TokenAction(token) ==
    LET u == ToUpper(token) IN
    [ out |-> IF u = TokenDIR THEN DirOutput ELSE <<>>,
      ex  |-> u = TokenEX ]

\* The token loop left at the first EX: the tokens after it are not looked up
RECURSIVE RunTokens_StopAtEx(_)
RunTokens_StopAtEx(toks) ==
    IF toks = <<>> THEN [response |-> <<>>, ex |-> FALSE]
    ELSE LET a == TokenAction(Head(toks)) IN
         IF a.ex THEN [response |-> <<>>, ex |-> TRUE]
         ELSE LET r == RunTokens_StopAtEx(Tail(toks))
              IN [response |-> a.out \o r.response, ex |-> r.ex]

RECURSIVE RunTokens(_)
RunTokens(toks) ==
    IF toks = <<>> THEN [response |-> <<>>, ex |-> FALSE]
    ELSE LET a == TokenAction(Head(toks))
             r == RunTokens(Tail(toks))
         IN [response |-> a.out \o r.response, ex |-> a.ex \/ r.ex]

ConnectionCommand(ln) == RunTokens(Tokens(ln))

\* The for loop body with the prompt sent only after a line that was dispatched
ProcessChar_NoPromptOnEmpty(ln, chr) ==
    IF IsTerminator(chr) THEN
        IF ln # <<>> THEN
            LET r == ConnectionCommand(ln) IN
            [ line |-> <<>>,
              sends |-> (IF r.response # <<>> THEN <<CRLF, r.response>> ELSE <<>>)
                        \o <<PROMPT>>,
              dispatch |-> <<ln>>,
              ex |-> r.ex ]
        ELSE [ line |-> ln, sends |-> <<>>, dispatch |-> <<>>, ex |-> FALSE ]
    ELSE IF ~IsPrint(chr) THEN
        [ line |-> ln, sends |-> <<>>, dispatch |-> <<>>, ex |-> FALSE ]
    ELSE
        [ line |-> Append(ln, chr), sends |-> <<<<chr>>>>, dispatch |-> <<>>, ex |-> FALSE ]

\* The for loop body with the echo of a line sent when its terminator comes,
\* after the response and the prompt
ProcessChar_LateEcho(ln, chr) ==
    IF IsTerminator(chr) THEN
        IF ln # <<>> THEN
            LET r == ConnectionCommand(ln) IN
            [ line |-> <<>>,
              sends |-> (IF r.response # <<>> THEN <<CRLF, r.response>> ELSE <<>>)
                        \o <<PROMPT>> \o [k \in DOMAIN ln |-> <<ln[k]>>],
              dispatch |-> <<ln>>,
              ex |-> r.ex ]
        ELSE [ line |-> ln, sends |-> <<PROMPT>>, dispatch |-> <<>>, ex |-> FALSE ]
    ELSE IF ~IsPrint(chr) THEN
        [ line |-> ln, sends |-> <<>>, dispatch |-> <<>>, ex |-> FALSE ]
    ELSE
        [ line |-> Append(ln, chr), sends |-> <<>>, dispatch |-> <<>>, ex |-> FALSE ]

\* The for loop body with the line break sent before every response, empty or not
ProcessChar_AlwaysBreak(ln, chr) ==
    IF IsTerminator(chr) THEN
        IF ln # <<>> THEN
            LET r == ConnectionCommand(ln) IN
            [ line |-> <<>>,
              sends |-> <<CRLF, r.response, PROMPT>>,
              dispatch |-> <<ln>>,
              ex |-> r.ex ]
        ELSE [ line |-> ln, sends |-> <<PROMPT>>, dispatch |-> <<>>, ex |-> FALSE ]
    ELSE IF ~IsPrint(chr) THEN
        [ line |-> ln, sends |-> <<>>, dispatch |-> <<>>, ex |-> FALSE ]
    ELSE
        [ line |-> Append(ln, chr), sends |-> <<<<chr>>>>, dispatch |-> <<>>, ex |-> FALSE ]

\* The for loop body with line.clear() left out
ProcessChar_NoClear(ln, chr) ==
    IF IsTerminator(chr) THEN
        IF ln # <<>> THEN
            LET r == ConnectionCommand(ln) IN
            [ line |-> ln,
              sends |-> (IF r.response # <<>> THEN <<CRLF, r.response>> ELSE <<>>)
                        \o <<PROMPT>>,
              dispatch |-> <<ln>>,
              ex |-> r.ex ]
        ELSE [ line |-> ln, sends |-> <<PROMPT>>, dispatch |-> <<>>, ex |-> FALSE ]
    ELSE IF ~IsPrint(chr) THEN
        [ line |-> ln, sends |-> <<>>, dispatch |-> <<>>, ex |-> FALSE ]
    ELSE
        [ line |-> Append(ln, chr), sends |-> <<<<chr>>>>, dispatch |-> <<>>, ex |-> FALSE ]

\* One turn of the for loop of connection() on the byte chr with the line ln:
\* the new line, the send() calls in order, the line dispatched (if any) and
\* whether ex() ran.
\* The for loop body that echoes a printable byte and leaves it out of line
ProcessChar_EchoOnly(ln, chr) ==
    IF IsTerminator(chr) THEN
        IF ln # <<>> THEN
            LET r == ConnectionCommand(ln) IN
            [ line |-> <<>>,
              sends |-> (IF r.response # <<>> THEN <<CRLF, r.response>> ELSE <<>>)
                        \o <<PROMPT>>,
              dispatch |-> <<ln>>,
              ex |-> r.ex ]
        ELSE [ line |-> ln, sends |-> <<PROMPT>>, dispatch |-> <<>>, ex |-> FALSE ]
    ELSE IF ~IsPrint(chr) THEN
        [ line |-> ln, sends |-> <<>>, dispatch |-> <<>>, ex |-> FALSE ]
    ELSE
        [ line |-> IF ln = <<>> THEN <<chr>> ELSE ln, sends |-> <<<<chr>>>>,
          dispatch |-> <<>>, ex |-> FALSE ]

ProcessChar(ln, chr) ==
    IF IsTerminator(chr) THEN
        IF ln # <<>> THEN
            LET r == ConnectionCommand(ln) IN
            [ line |-> <<>>,
              sends |-> (IF r.response # <<>> THEN <<CRLF, r.response>> ELSE <<>>)
                        \o <<PROMPT>>,
              dispatch |-> <<ln>>,
              ex |-> r.ex ]
        ELSE [ line |-> ln, sends |-> <<PROMPT>>, dispatch |-> <<>>, ex |-> FALSE ]
    ELSE IF ~IsPrint(chr) THEN
        [ line |-> ln, sends |-> <<>>, dispatch |-> <<>>, ex |-> FALSE ]
    ELSE
        [ line |-> Append(ln, chr), sends |-> <<<<chr>>>>, dispatch |-> <<>>, ex |-> FALSE ]

Min(a, b) == IF a < b THEN a ELSE b

RemoveAt(s, k) == SubSeq(s, 1, k - 1) \o SubSeq(s, k + 1, Len(s))

\* --------------------------------------------------------- CommandLine.h
\* An option name is a string, "" for none (an empty long_name, a short_name
\* of 0).  An argument of the command line is lexed: kind "long" for --name,
\* "short" for -c and "word" for anything else, with its bytes in text.
NoName == ""

\* AddOption, lines 326-339.  present and count are not set here; nothing
\* reads them before BuildParserParameters clears them.
AddOption(opts, long_name, short_name, required, has_value, occurs_type, occurs_value) ==
    Append(opts, [ long_name |-> long_name, short_name |-> short_name,
                   required |-> required, has_value |-> has_value,
                   occurs_type |-> occurs_type, occurs_value |-> occurs_value,
                   present |-> 0, count |-> 0, value |-> <<>> ])

\* The index of the first element of seq that satisfies P, 0 if there is none
FirstIndex(seq, P(_)) ==
    IF \E k \in DOMAIN seq : P(seq[k])
       THEN CHOOSE k \in DOMAIN seq : P(seq[k]) /\ \A j \in 1..(k - 1) : ~P(seq[j])
       ELSE 0

\* FindOption(const std::string &), lines 628-631, and FindOption(char), 633-641
FindOptionLong(opts, long_name) ==
    LET Is(o) == o.long_name = long_name IN FirstIndex(opts, Is)

FindOptionShort(opts, short_name) ==
    LET Is(o) == o.short_name = short_name IN FirstIndex(opts, Is)

\* has_arg of a long option, the suffix of a short option in short_opts
HasArg(has_value) ==
    CASE has_value = "Required" -> "required_argument"
      [] has_value = "Optional" -> "optional_argument"
      [] OTHER -> "no_argument"

\* The entries BuildParserParameters makes for the options k..Len(opts): a
\* long option for each option with a long name, its flag pointing to the
\* present of that option, and a short option for each with a short name
RECURSIVE LongOptsFrom(_, _)
LongOptsFrom(opts, k) ==
    IF k > Len(opts) THEN <<>>
    ELSE (IF opts[k].long_name # NoName
             THEN << [ name |-> opts[k].long_name, has_arg |-> HasArg(opts[k].has_value),
                       flag |-> k, val |-> 1 ] >>
             ELSE <<>>)
         \o LongOptsFrom(opts, k + 1)

RECURSIVE ShortOptsFrom(_, _)
ShortOptsFrom(opts, k) ==
    IF k > Len(opts) THEN <<>>
    ELSE (IF opts[k].short_name # NoName
             THEN << [ name |-> opts[k].short_name, has_arg |-> HasArg(opts[k].has_value) ] >>
             ELSE <<>>)
         \o ShortOptsFrom(opts, k + 1)

\* BuildParserParameters, lines 341-394
BuildParserParameters(opts) ==
    [ options |-> [k \in DOMAIN opts |-> [opts[k] EXCEPT !.present = 0, !.count = 0]],
      short_opts |-> ShortOptsFrom(opts, 1),
      long_opts |-> LongOptsFrom(opts, 1) ]

\* getopt_long of glibc on the lexed arguments av, from optind on, with
\* opterr = 0, a short_opts that does not start with ':' or '+' and
\* POSIXLY_CORRECT not set: the words before the next option are passed over
\* (they are permuted to the end), a name that is not in the table or an
\* argument that is missing gives '?', an option that requires an argument
\* takes the "=value" of a long option or else the next element of argv
\* whatever it is, and a long option found stores val in *flag and gives 0
\* (here "long") with its index in long_opts.  optarg is <<>> for null.
\* (Names are matched whole: no argument here abbreviates a long name.)
NextOption(av, from) ==
    IF \E k \in from..Len(av) : av[k].kind # "word"
       THEN CHOOSE k \in from..Len(av) :
                av[k].kind # "word" /\ \A j \in from..(k - 1) : av[j].kind = "word"
       ELSE 0

GetOptEnd(av) ==
    [opt |-> "end", optarg |-> <<>>, index |-> 0, flag |-> 0, optind |-> Len(av) + 1]

GetOptErr(k) ==
    [opt |-> "?", optarg |-> <<>>, index |-> 0, flag |-> 0, optind |-> k + 1]

\* The option a is entry idx of its table: 0 and the index for a long option,
\* the character for a short one
GetOptFound(a, idx, flag, arg, nxt) ==
    [ opt |-> IF a.kind = "long" THEN "long" ELSE a.name,
      optarg |-> arg,
      index |-> IF a.kind = "long" THEN idx ELSE 0,
      flag |-> flag,
      optind |-> nxt ]

GetOptEntry(av, k, has_arg, idx, flag) ==
    CASE has_arg = "no_argument" ->
            IF av[k].val # <<>> THEN GetOptErr(k)
                                ELSE GetOptFound(av[k], idx, flag, <<>>, k + 1)
      [] has_arg = "required_argument" ->
            IF av[k].val # <<>> THEN GetOptFound(av[k], idx, flag, av[k].val, k + 1)
            ELSE IF k < Len(av) THEN GetOptFound(av[k], idx, flag, <<av[k + 1].text>>, k + 2)
            ELSE GetOptErr(k)
      [] OTHER -> GetOptFound(av[k], idx, flag, av[k].val, k + 1)

EntryIndex(table, name) ==
    LET IsIt(e) == e.name = name IN FirstIndex(table, IsIt)

GetOptIn(av, k, table, idx, long) ==
    IF idx = 0 THEN GetOptErr(k)
    ELSE GetOptEntry(av, k, table[idx].has_arg, idx, IF long THEN table[idx].flag ELSE 0)

GetOptAt(av, k, short_opts, long_opts) ==
    IF k = 0 THEN GetOptEnd(av)
    ELSE IF av[k].kind = "long"
            THEN GetOptIn(av, k, long_opts, EntryIndex(long_opts, av[k].name), TRUE)
            ELSE GetOptIn(av, k, short_opts, EntryIndex(short_opts, av[k].name), FALSE)

GetOptLong(av, optind, short_opts, long_opts) ==
    GetOptAt(av, NextOption(av, optind), short_opts, long_opts)

\* getopt_long stored val in *flag, the present of option flag
SetPresent(opts, flag) ==
    IF flag = 0 THEN opts ELSE [opts EXCEPT ![flag] = [@ EXCEPT !.present = 1]]

\* count++ and value.emplace_back(optarg) on options[k]
CountOption(opts, k, optarg) ==
    [opts EXCEPT ![k] = [@ EXCEPT !.count = @ + 1, !.value = @ \o optarg]]

\* Lines 437-448: the option FindOption(char) gave, o = 0 for options.end()
CountShort(opts, o, optarg) ==
    IF o # 0 THEN CountOption(opts, o, optarg) ELSE opts

\* Lines 417-449 for what getopt_long returned, g.  error_message is the
\* sequence of the lines written, each without the argument or option name
\* it ends with.
ParseTaken(st, g, opts) ==
    IF g.opt = "?" THEN
        [ options |-> opts, optind |-> g.optind,
          error_message |-> Append(st.error_message, "Unknown option or missing value") ]
    ELSE IF g.opt = "long" THEN
        [ options |-> CountOption(opts, g.index, g.optarg),
          optind |-> g.optind, error_message |-> st.error_message ]
    ELSE
        [ options |-> CountShort(opts, FindOptionShort(opts, g.opt), g.optarg),
          optind |-> g.optind, error_message |-> st.error_message ]

\* The do-while of ParseCommandLine, lines 405-450, from the state st =
\* [options, optind, error_message]
RECURSIVE ParseLoop(_, _, _, _)
ParseNext(st, g, av, short_opts, long_opts) ==
    IF g.opt = "end" THEN st
    ELSE ParseLoop(ParseTaken(st, g, SetPresent(st.options, g.flag)),
                   av, short_opts, long_opts)

ParseLoop(st, av, short_opts, long_opts) ==
    ParseNext(st, GetOptLong(av, st.optind, short_opts, long_opts),
              av, short_opts, long_opts)

\* ParseCommandLine, lines 396-454: optind = 1 is argv[1], the first of av
ParseCommandLine(opts, av, short_opts, long_opts, errors) ==
    ParseLoop([options |-> opts, optind |-> 1, error_message |-> errors],
              av, short_opts, long_opts)

\* What ValidateOptions, lines 462-503, writes for one option: nothing when
\* the option is accepted
OptionError_EveryCount(o) ==
    IF o.count = 0 /\ o.required THEN <<"is required">>
    ELSE CASE o.occurs_type = "AtLeast" ->
                IF o.count < o.occurs_value THEN <<"must occur at least">> ELSE <<>>
           [] o.occurs_type = "AtMost" ->
                IF o.count > o.occurs_value THEN <<"must occur at most">> ELSE <<>>
           [] o.occurs_type = "Exactly" ->
                IF o.count # o.occurs_value THEN <<"must occur exactly">> ELSE <<>>
           [] OTHER -> <<>>

OptionError(o) ==
    IF o.count = 0 THEN
        IF o.required THEN <<"is required">> ELSE <<>>
    ELSE CASE o.occurs_type = "AtLeast" ->
                IF o.count < o.occurs_value THEN <<"must occur at least">> ELSE <<>>
           [] o.occurs_type = "AtMost" ->
                IF o.count > o.occurs_value THEN <<"must occur at most">> ELSE <<>>
           [] o.occurs_type = "Exactly" ->
                IF o.count # o.occurs_value THEN <<"must occur exactly">> ELSE <<>>
           [] OTHER -> <<>>

RECURSIVE ValidateFrom(_, _)
ValidateFrom(opts, k) ==
    IF k > Len(opts) THEN <<>>
    ELSE OptionError(opts[k]) \o ValidateFrom(opts, k + 1)

\* ValidateOptions, lines 456-506: rc and the lines added to error_message
ValidateResult(errors, found) ==
    [ rc |-> found = <<>>, error_message |-> errors \o found ]

ValidateOptions(opts, errors) == ValidateResult(errors, ValidateFrom(opts, 1))

\* Parse, lines 508-521: the options and error_message afterwards, and the
\* value returned, which is that of ValidateOptions
ParseResult(opts, v) ==
    [ options |-> opts, error_message |-> v.error_message, rc |-> v.rc ]

ParseValidated(p) == ParseResult(p.options, ValidateOptions(p.options, p.error_message))

ParseBuilt(b, av, errors) ==
    ParseValidated(ParseCommandLine(b.options, av, b.short_opts, b.long_opts, errors))

Parse(opts, av, errors) == ParseBuilt(BuildParserParameters(opts), av, errors)

\* IsOptionValue(const std::string &), lines 655-659, and
\* GetOptionValues(const std::string &), lines 643-647
IsOptionValue(opts, long_name) ==
    LET i == FindOptionLong(opts, long_name) IN i # 0 /\ opts[i].count > 0

GetOptionValues(opts, long_name) ==
    LET i == FindOptionLong(opts, long_name) IN
    IF i # 0 /\ opts[i].count > 0 THEN opts[i].value ELSE <<>>

\* ------------------------------------------------ main(), lines 286-336
DEFAULT_IP == "INADDR_ANY"
DEFAULT_PORT == 8023

INT_MAX == 2147483647
PortRange == 65536

IsSpace(b) == b = SP \/ b \in 9..13
IsDigit(b) == b \in 48..57

RECURSIVE SkipSpace(_)
SkipSpace(s) == IF s # <<>> /\ IsSpace(Head(s)) THEN SkipSpace(Tail(s)) ELSE s

\* The digits at the head of s added to acc, with sign sgn; n counts them
RECURSIVE StoiDigits(_, _, _, _)
StoiDigits(s, acc, sgn, n) ==
    IF s = <<>> \/ ~IsDigit(Head(s)) THEN [throws |-> IF n = 0 THEN "invalid_argument" ELSE "",
                                           value |-> acc]
    ELSE LET d == Head(s) - 48
             last == IF sgn = 1 THEN (INT_MAX % 10) ELSE (INT_MAX % 10) + 1
             top == (INT_MAX \div 10)
         IN IF sgn * acc > top \/ (sgn * acc = top /\ d > last)
               THEN [throws |-> "out_of_range", value |-> 0]
               ELSE StoiDigits(Tail(s), acc * 10 + sgn * d, sgn, n + 1)

\* std::stoi(str), line 322: white space, a sign, decimal digits; what
\* follows the digits is ignored.  throws is "" when a value is returned.
Stoi(str) ==
    LET s == SkipSpace(str) IN
    IF s # <<>> /\ Head(s) = 45 THEN StoiDigits(Tail(s), 0, -1, 0)
    ELSE IF s # <<>> /\ Head(s) = 43 THEN StoiDigits(Tail(s), 0, 1, 0)
    ELSE StoiDigits(s, 0, 1, 0)

\* static_cast<uint16_t>, line 322; htons only orders the bytes
ToUint16(n) == n % PortRange

\* cmd_run after the two AddOption calls, lines 288-290
MainOptions ==
    AddOption(AddOption(<<>>, "host", "h", FALSE, "Required", "AtMost", 1),
              "port", "p", FALSE, "Required", "AtMost", 1)

\* ------------------------------------------------------------------ state
\* The future of worker w is ready: the task returned or threw
Ready(w) == wpc[w] \in {"done", "threw"}

\* The process runs: main() has neither returned nor been ended by std::terminate
ProcessAlive == mainPc \notin {"done", "aborted"}

Tag(w, payloads) == [k \in DOMAIN payloads |-> [by |-> w, data |-> payloads[k]]]

\* main() went through lines 286-336 with no argument on the command line
SetupDone ==
    /\ argv = <<>>
    /\ options = Parse(MainOptions, <<>>, <<>>).options
    /\ error_message = <<>>
    /\ rc = "true"
    /\ host_ptr = "null"
    /\ addr = << [sin_port |-> DEFAULT_PORT, sin_addr |-> DEFAULT_IP] >>
    /\ mlog = ""

InitCommon ==
    /\ SetupDone
    /\ running = TRUE
    /\ reapIdx = 1
    /\ joinIdx = 1
    /\ listenOpen = TRUE
    /\ scopeOf = 0
    /\ clOwns = FALSE
    /\ cvNotified = FALSE
    /\ line = [w \in Workers |-> <<>>]
    /\ buffer = [w \in Workers |-> <<>>]
    /\ bi = [w \in Workers |-> 1]
    /\ dispatched = [w \in Workers |-> <<>>]
    /\ wlog = [w \in Workers |-> ""]
    /\ inq = [c \in Conns |-> <<>>]
    /\ peerClosed = [c \in Conns |-> FALSE]
    /\ closes = [f \in Fds |-> 0]
    /\ sent = [f \in Fds |-> <<>>]
    /\ proc = [f \in Fds |-> <<>>]

\* main() has bound and listens (line 338), no client has connected
Init ==
    /\ InitCommon
    /\ mainPc = "while"
    /\ threads = <<>>
    /\ client_socket = NoSocket
    /\ wpc = [w \in Workers |-> "idle"]
    /\ my_socket = [w \in Workers |-> NoSocket]
    /\ nconn = 0
    /\ naccept = 0
    /\ quota = [c \in Conns |-> MaxSends]

\* ------------------------------------------------------------ the peers
CConnect ==
    /\ ProcessAlive
    /\ listenOpen
    /\ nconn < MaxConn
    /\ nconn' = nconn + 1
    /\ UNCHANGED << setupVars, running, mainVars, handoffVars, workerVars, naccept, inq,
                    peerClosed, quota, logVars >>

CSend(c, menu) ==
    /\ ProcessAlive
    /\ c <= nconn
    /\ ~peerClosed[c]
    /\ quota[c] > 0
    /\ \E chunk \in menu :
          inq' = [inq EXCEPT ![c] = @ \o chunk]
    /\ quota' = [quota EXCEPT ![c] = @ - 1]
    /\ UNCHANGED << setupVars, running, mainVars, handoffVars, workerVars, nconn, naccept,
                    peerClosed, logVars >>

CClose(c) ==
    /\ ProcessAlive
    /\ c <= nconn
    /\ ~peerClosed[c]
    /\ peerClosed' = [peerClosed EXCEPT ![c] = TRUE]
    /\ UNCHANGED << setupVars, running, mainVars, handoffVars, workerVars, nconn, naccept,
                    inq, quota, logVars >>

\* ------------------------------------------------------------ main()
\* The loop test left out: while (true)
MWhile_NoTest ==
    /\ mainPc = "while"
    /\ mainPc' = "select"
    /\ UNCHANGED << setupVars, running, threads, reapIdx, joinIdx, listenOpen, handoffVars,
                    workerVars, peerVars, naccept, logVars >>

\* while (running), line 339
MWhile ==
    /\ mainPc = "while"
    /\ IF running
          THEN mainPc' = "select" /\ joinIdx' = joinIdx
          ELSE mainPc' = "join" /\ joinIdx' = 1
    /\ UNCHANGED << setupVars, running, threads, reapIdx, listenOpen, handoffVars, workerVars,
                    peerVars, naccept, logVars >>

\* select() returns -1: log, continue
MSelectError ==
    /\ mainPc = "select"
    /\ mainPc' = "while"
    /\ UNCHANGED << setupVars, running, threads, reapIdx, joinIdx, listenOpen, handoffVars,
                    workerVars, peerVars, naccept, logVars >>

\* select() returns 0: the reap pass starts, auto i = std::begin(threads)
MSelectTimeout ==
    /\ mainPc = "select"
    /\ naccept = nconn
    /\ mainPc' = "reapTest"
    /\ reapIdx' = 1
    /\ UNCHANGED << setupVars, running, threads, joinIdx, listenOpen, handoffVars, workerVars,
                    peerVars, naccept, logVars >>

\* select() reports the listening socket readable and accept() returns a descriptor
MAcceptOk ==
    /\ mainPc = "select"
    /\ naccept < nconn
    /\ naccept' = naccept + 1
    /\ client_socket' = naccept + 1
    /\ mainPc' = "spawn"
    /\ UNCHANGED << setupVars, running, threads, reapIdx, joinIdx, listenOpen, scopeOf, clOwns,
                    cvNotified, workerVars, peerVars, logVars >>

\* accept() returns -1 and the loop is left (break for continue)
MAcceptFail_Fatal ==
    /\ mainPc = "select"
    /\ naccept < nconn
    /\ client_socket' = NoSocket
    /\ mainPc' = "join"
    /\ UNCHANGED << setupVars, running, threads, reapIdx, joinIdx, listenOpen, scopeOf, clOwns,
                    cvNotified, workerVars, peerVars, naccept, logVars >>

\* select() reports the listening socket readable and accept() returns -1: log, continue
MAcceptFail ==
    /\ mainPc = "select"
    /\ naccept < nconn
    /\ client_socket' = NoSocket
    /\ mainPc' = "while"
    /\ UNCHANGED << setupVars, running, threads, reapIdx, joinIdx, listenOpen, scopeOf, clOwns,
                    cvNotified, workerVars, peerVars, naccept, logVars >>

\* cm, cl{cm}, cv are constructed, std::async starts the worker, the future is
\* appended to threads (lines 377-392)
MSpawn ==
    /\ mainPc = "spawn"
    /\ LET w == client_socket IN
          /\ scopeOf' = w
          /\ wpc' = [wpc EXCEPT ![w] = "claim"]
          /\ threads' = Append(threads, w)
    /\ clOwns' = TRUE
    /\ cvNotified' = FALSE
    /\ mainPc' = "wait"
    /\ UNCHANGED << setupVars, running, reapIdx, joinIdx, listenOpen, client_socket, my_socket,
                    line, buffer, bi, dispatched, wlog, peerVars, naccept, logVars >>

\* cv.wait_for(cl, 100ms) is entered: main becomes a waiter of cv
MWaitEnter ==
    /\ mainPc = "wait"
    /\ mainPc' = "waiting"
    /\ UNCHANGED << setupVars, running, threads, reapIdx, joinIdx, listenOpen, handoffVars,
                    workerVars, peerVars, naccept, logVars >>

\* wait_for returns cv_status::timeout: the while loop waits again
MWaitTimeout ==
    /\ mainPc = "waiting"
    /\ ~cvNotified
    /\ mainPc' = "wait"
    /\ UNCHANGED << setupVars, running, threads, reapIdx, joinIdx, listenOpen, handoffVars,
                    workerVars, peerVars, naccept, logVars >>

\* The end of the scope of case default: cv, cl and cm are destroyed
LeaveHandoff ==
    /\ mainPc' = "while"
    /\ scopeOf' = 0
    /\ clOwns' = FALSE
    /\ cvNotified' = FALSE
    /\ UNCHANGED << setupVars, running, threads, reapIdx, joinIdx, listenOpen, client_socket,
                    workerVars, peerVars, naccept, logVars >>

\* wait_for returns cv_status::no_timeout after a notify_all
MWaitNotified ==
    /\ mainPc = "waiting"
    /\ cvNotified
    /\ LeaveHandoff

\* wait_for returns cv_status::no_timeout with no notification (a spurious wakeup)
MWaitSpurious ==
    /\ mainPc = "waiting"
    /\ ~cvNotified
    /\ LeaveHandoff

\* while (i != std::end(threads)), line 359
MReapTest ==
    /\ mainPc = "reapTest"
    /\ mainPc' = IF reapIdx > Len(threads) THEN "while" ELSE "reapCheck"
    /\ UNCHANGED << setupVars, running, threads, reapIdx, joinIdx, listenOpen, handoffVars,
                    workerVars, peerVars, naccept, logVars >>

\* The iterator i after threads.erase(i), which invalidates it: it is used again
\* by the loop test.  An unchecked vector iterator is a pointer and designates
\* the element that followed; a checked iterator ends the process.
AfterErase == {"reapTest", "aborted"}

\* if (i->wait_for(0s) == ready) { i->get(); threads.erase(i); }, lines 360-363.
\* i is not advanced when the future is not ready.
MReapCheck ==
    /\ mainPc = "reapCheck"
    /\ LET w == threads[reapIdx] IN
          IF Ready(w) THEN
              IF wpc[w] = "threw"
                 THEN mainPc' = "aborted" /\ threads' = threads
                 ELSE /\ threads' = RemoveAt(threads, reapIdx)
                      /\ mainPc' \in AfterErase
          ELSE mainPc' = "reapTest" /\ threads' = threads
    /\ UNCHANGED << setupVars, running, reapIdx, joinIdx, listenOpen, handoffVars, workerVars,
                    peerVars, naccept, logVars >>

\* for (auto &thread : threads) { thread.wait(); thread.get(); }, then close(s)
MJoin ==
    /\ mainPc = "join"
    /\ IF joinIdx > Len(threads) THEN
          /\ listenOpen' = FALSE
          /\ mainPc' = "done"
          /\ joinIdx' = joinIdx
       ELSE
          /\ Ready(threads[joinIdx])
          /\ listenOpen' = listenOpen
          /\ IF wpc[threads[joinIdx]] = "threw"
                THEN mainPc' = "aborted" /\ joinIdx' = joinIdx
                ELSE mainPc' = "join" /\ joinIdx' = joinIdx + 1
    /\ UNCHANGED << setupVars, running, threads, reapIdx, handoffVars, workerVars, peerVars,
                    naccept, logVars >>

\* ------------------------------------------- main() before the accept loop
\* Lines 292-296: Parse; when it returns false the message and the usage are
\* printed and the do-while is left
MParse ==
    /\ mainPc = "parse"
    /\ \E r \in {Parse(options, argv, error_message)} :
          /\ options' = r.options
          /\ error_message' = r.error_message
          /\ rc' = IF r.rc THEN "true" ELSE "false"
          /\ mainPc' = IF r.rc THEN "resolve" ELSE "join"
    /\ joinIdx' = 1
    /\ UNCHANGED << argv, host_ptr, addr, mlog, running, threads, reapIdx, listenOpen,
                    handoffVars, workerVars, peerVars, naccept, logVars >>

\* Lines 298-309: gethostbyname_r when a host was given.  It returns 0 with
\* a result, 0 without one (the host is not found), or an error number
MResolve ==
    /\ mainPc = "resolve"
    /\ IF IsOptionValue(options, "host")
          THEN \E r \in {"found", "notfound", "error"} :
                  /\ host_ptr' = IF r = "found" THEN "addr" ELSE "null"
                  /\ mlog' = IF r = "error" THEN "Failed to resolve host" ELSE mlog
                  /\ mainPc' = IF r = "error" THEN "join" ELSE "socket"
          ELSE /\ host_ptr' = host_ptr
               /\ mlog' = mlog
               /\ mainPc' = "socket"
    /\ joinIdx' = 1
    /\ UNCHANGED << argv, options, error_message, rc, addr, running, threads, reapIdx,
                    listenOpen, handoffVars, workerVars, peerVars, naccept, logVars >>

\* Lines 312-316: socket()
MSocket ==
    /\ mainPc = "socket"
    /\ \E ok \in BOOLEAN :
          /\ listenOpen' = ok
          /\ mlog' = IF ok THEN mlog ELSE "Failed to create socket"
          /\ mainPc' = IF ok THEN "bind" ELSE "join"
    /\ joinIdx' = 1
    /\ UNCHANGED << argv, options, error_message, rc, host_ptr, addr, running, threads,
                    reapIdx, handoffVars, workerVars, peerVars, naccept, logVars >>

\* The port of line 322: std::stoi of the first value of the option port,
\* DEFAULT_PORT without one
PortOf(opts) ==
    IF IsOptionValue(opts, "port") THEN Stoi(GetOptionValues(opts, "port")[1])
                                   ELSE [throws |-> "", value |-> DEFAULT_PORT]

\* Lines 320-329: the address is built and given to bind().  An exception of
\* std::stoi leaves main(): std::terminate
MBind_AnyAddress ==
    /\ mainPc = "bind"
    /\ \E p \in {PortOf(options)} :
          IF p.throws # ""
             THEN /\ mainPc' = "aborted"
                  /\ UNCHANGED << addr, mlog >>
             ELSE /\ addr' = << [ sin_port |-> ToUint16(p.value), sin_addr |-> DEFAULT_IP ] >>
                  /\ \E ok \in BOOLEAN :
                        /\ mlog' = IF ok THEN mlog ELSE "Failed to bind socket"
                        /\ mainPc' = IF ok THEN "listen" ELSE "join"
    /\ joinIdx' = 1
    /\ UNCHANGED << argv, options, error_message, rc, host_ptr, running, threads, reapIdx,
                    listenOpen, handoffVars, workerVars, peerVars, naccept, logVars >>

MBind ==
    /\ mainPc = "bind"
    /\ \E p \in {PortOf(options)} :
          IF p.throws # ""
             THEN /\ mainPc' = "aborted"
                  /\ UNCHANGED << addr, mlog >>
             ELSE /\ addr' = << [ sin_port |-> ToUint16(p.value),
                                  sin_addr |-> IF host_ptr = "addr" THEN "h_addr_list[0]"
                                                                    ELSE DEFAULT_IP ] >>
                  /\ \E ok \in BOOLEAN :
                        /\ mlog' = IF ok THEN mlog ELSE "Failed to bind socket"
                        /\ mainPc' = IF ok THEN "listen" ELSE "join"
    /\ joinIdx' = 1
    /\ UNCHANGED << argv, options, error_message, rc, host_ptr, running, threads, reapIdx,
                    listenOpen, handoffVars, workerVars, peerVars, naccept, logVars >>

\* Lines 332-336: listen()
MListen ==
    /\ mainPc = "listen"
    /\ \E ok \in BOOLEAN :
          /\ mlog' = IF ok THEN mlog ELSE "Failed to listen on socket"
          /\ mainPc' = IF ok THEN "while" ELSE "join"
    /\ joinIdx' = 1
    /\ UNCHANGED << argv, options, error_message, rc, host_ptr, addr, running, threads,
                    reapIdx, listenOpen, handoffVars, workerVars, peerVars, naccept, logVars >>

SetupNext == MParse \/ MResolve \/ MSocket \/ MBind \/ MListen

\* ------------------------------------------------------- the worker lambda
\* int my_socket = client_socket: a read through the captured reference, which
\* dangles once main has left the handoff scope of this worker
ClaimValues(w) ==
    IF scopeOf = w THEN {client_socket} ELSE {client_socket, NoSocket}

WClaim(w) ==
    /\ ProcessAlive
    /\ wpc[w] = "claim"
    /\ \E v \in ClaimValues(w) : my_socket' = [my_socket EXCEPT ![w] = v]
    /\ wpc' = [wpc EXCEPT ![w] = "unlock"]
    /\ UNCHANGED << setupVars, running, mainVars, handoffVars, line, buffer, bi, dispatched, wlog,
                    peerVars, naccept, logVars >>

\* cl.unlock() through the captured reference: returns when the owns flag in
\* the slot of cl is set and throws std::system_error when it is clear; with
\* no lock object alive in the slot either happens
UnlockOutcomes(w) ==
    IF scopeOf # 0
       THEN (IF clOwns THEN {"notify"} ELSE {"threw"})
       ELSE {"notify", "threw"}

WUnlock(w) ==
    /\ ProcessAlive
    /\ wpc[w] = "unlock"
    /\ \E o \in UnlockOutcomes(w) : wpc' = [wpc EXCEPT ![w] = o]
    /\ clOwns' = FALSE
    /\ UNCHANGED << setupVars, running, mainVars, client_socket, scopeOf, cvNotified, my_socket,
                    line, buffer, bi, dispatched, wlog, peerVars, naccept, logVars >>

\* cv.notify_all(): wakes main when it waits on the condition variable in
\* that slot, and is lost otherwise
WNotify(w) ==
    /\ ProcessAlive
    /\ wpc[w] = "notify"
    /\ cvNotified' = (cvNotified \/ mainPc = "waiting")
    /\ wpc' = [wpc EXCEPT ![w] = "prompt"]
    /\ UNCHANGED << setupVars, running, mainVars, client_socket, scopeOf, clOwns, my_socket,
                    line, buffer, bi, dispatched, wlog, peerVars, naccept, logVars >>

\* ---------------------------------------------------------- connection()
Send(w, payloads) ==
    sent' = [sent EXCEPT ![my_socket[w]] = @ \o Tag(w, payloads)]

\* send(s, ">>", 2, 0), line 190
WPrompt(w) ==
    /\ ProcessAlive
    /\ wpc[w] = "prompt"
    /\ Send(w, <<PROMPT0>>)
    /\ wpc' = [wpc EXCEPT ![w] = "loop"]
    /\ UNCHANGED << setupVars, running, mainVars, handoffVars, my_socket, line, buffer, bi,
                    dispatched, wlog, peerVars, naccept, closes, proc >>

\* while (running), line 196; after the loop connection() returns
WLoop(w) ==
    /\ ProcessAlive
    /\ wpc[w] = "loop"
    /\ wpc' = [wpc EXCEPT ![w] = IF running THEN "select" ELSE "close"]
    /\ UNCHANGED << setupVars, running, mainVars, handoffVars, my_socket, line, buffer, bi,
                    dispatched, wlog, peerVars, naccept, logVars >>

\* The descriptor of worker w is open and has bytes or an end of stream to read
Readable(w) ==
    /\ my_socket[w] # NoSocket
    /\ closes[my_socket[w]] = 0
    /\ (inq[my_socket[w]] # <<>> \/ peerClosed[my_socket[w]])

\* select() returns -1, lines 206-210
WSelectError(w) ==
    /\ ProcessAlive
    /\ wpc[w] = "select"
    /\ running' = FALSE
    /\ wlog' = [wlog EXCEPT ![w] = "Failed to select on socket"]
    /\ wpc' = [wpc EXCEPT ![w] = "loop"]
    /\ UNCHANGED << setupVars, mainVars, handoffVars, my_socket, line, buffer, bi, dispatched,
                    peerVars, naccept, logVars >>

\* select() returns 0, lines 211-213
WSelectTimeout(w) ==
    /\ ProcessAlive
    /\ wpc[w] = "select"
    /\ ~Readable(w)
    /\ my_socket[w] # NoSocket => closes[my_socket[w]] = 0
    /\ wpc' = [wpc EXCEPT ![w] = "loop"]
    /\ UNCHANGED << setupVars, running, mainVars, handoffVars, my_socket, line, buffer, bi,
                    dispatched, wlog, peerVars, naccept, logVars >>

\* recv() returns -1, lines 219-224
WRecvError(w) ==
    /\ ProcessAlive
    /\ wpc[w] = "select"
    /\ Readable(w)
    /\ running' = FALSE
    /\ wlog' = [wlog EXCEPT ![w] = "Failed to receive data"]
    /\ wpc' = [wpc EXCEPT ![w] = "loop"]
    /\ UNCHANGED << setupVars, mainVars, handoffVars, my_socket, line, buffer, bi, dispatched,
                    peerVars, naccept, logVars >>

\* recv() returns 0, lines 227-231
WRecvEof(w) ==
    /\ ProcessAlive
    /\ wpc[w] = "select"
    /\ Readable(w)
    /\ inq[my_socket[w]] = <<>>
    /\ running' = FALSE
    /\ wlog' = [wlog EXCEPT ![w] = "Connection closed by client"]
    /\ wpc' = [wpc EXCEPT ![w] = "loop"]
    /\ UNCHANGED << setupVars, mainVars, handoffVars, my_socket, line, buffer, bi, dispatched,
                    peerVars, naccept, logVars >>

\* recv() returns the bytes at hand, at most buffer.size(), line 216
WRecvData(w) ==
    /\ ProcessAlive
    /\ wpc[w] = "select"
    /\ Readable(w)
    /\ inq[my_socket[w]] # <<>>
    /\ LET q == inq[my_socket[w]]
           n == Min(Len(q), BufferSize)
       IN /\ buffer' = [buffer EXCEPT ![w] = SubSeq(q, 1, n)]
          /\ inq' = [inq EXCEPT ![my_socket[w]] = SubSeq(q, n + 1, Len(q))]
    /\ bi' = [bi EXCEPT ![w] = 1]
    /\ wpc' = [wpc EXCEPT ![w] = "process"]
    /\ UNCHANGED << setupVars, running, mainVars, handoffVars, my_socket, line, dispatched, wlog,
                    nconn, peerClosed, quota, naccept, logVars >>

\* The for loop with the flag assigned from the outcome of the line: a line
\* without EX sets running back to true
WProcess_FlagFromLine(w) ==
    /\ ProcessAlive
    /\ wpc[w] = "process"
    /\ IF bi[w] > Len(buffer[w]) THEN
          /\ wpc' = [wpc EXCEPT ![w] = "loop"]
          /\ UNCHANGED << running, line, bi, dispatched, sent, proc >>
       ELSE
          LET chr == buffer[w][bi[w]]
              r == ProcessChar(line[w], chr)
          IN /\ line' = [line EXCEPT ![w] = r.line]
             /\ Send(w, r.sends)
             /\ dispatched' = [dispatched EXCEPT ![w] = @ \o r.dispatch]
             /\ running' = IF r.dispatch # <<>> THEN ~r.ex ELSE running
             /\ proc' = [proc EXCEPT ![my_socket[w]] = Append(@, [by |-> w, chr |-> chr])]
             /\ bi' = [bi EXCEPT ![w] = @ + 1]
             /\ wpc' = wpc
    /\ UNCHANGED << setupVars, mainVars, handoffVars, my_socket, buffer, wlog, peerVars, naccept,
                    closes >>

\* The for loop with a test of the flag: it ends when running is false
WProcess_StopOnFlag(w) ==
    /\ ProcessAlive
    /\ wpc[w] = "process"
    /\ IF bi[w] > Len(buffer[w]) \/ ~running THEN
          /\ wpc' = [wpc EXCEPT ![w] = "loop"]
          /\ UNCHANGED << running, line, bi, dispatched, sent, proc >>
       ELSE
          LET chr == buffer[w][bi[w]]
              r == ProcessChar(line[w], chr)
          IN /\ line' = [line EXCEPT ![w] = r.line]
             /\ Send(w, r.sends)
             /\ dispatched' = [dispatched EXCEPT ![w] = @ \o r.dispatch]
             /\ running' = (running /\ ~r.ex)
             /\ proc' = [proc EXCEPT ![my_socket[w]] = Append(@, [by |-> w, chr |-> chr])]
             /\ bi' = [bi EXCEPT ![w] = @ + 1]
             /\ wpc' = wpc
    /\ UNCHANGED << setupVars, mainVars, handoffVars, my_socket, buffer, wlog, peerVars, naccept,
                    closes >>

\* One turn of for (int i = 0; i < bytes_received; i++), lines 234-269, or its end
WProcess(w) ==
    /\ ProcessAlive
    /\ wpc[w] = "process"
    /\ IF bi[w] > Len(buffer[w]) THEN
          /\ wpc' = [wpc EXCEPT ![w] = "loop"]
          /\ UNCHANGED << running, line, bi, dispatched, sent, proc >>
       ELSE
          LET chr == buffer[w][bi[w]]
              r == ProcessChar(line[w], chr)
          IN /\ line' = [line EXCEPT ![w] = r.line]
             /\ Send(w, r.sends)
             /\ dispatched' = [dispatched EXCEPT ![w] = @ \o r.dispatch]
             /\ running' = (running /\ ~r.ex)
             /\ proc' = [proc EXCEPT ![my_socket[w]] = Append(@, [by |-> w, chr |-> chr])]
             /\ bi' = [bi EXCEPT ![w] = @ + 1]
             /\ wpc' = wpc
    /\ UNCHANGED << setupVars, mainVars, handoffVars, my_socket, buffer, wlog, peerVars, naccept,
                    closes >>

\* close(my_socket), line 390; the task returns and its future becomes ready
WClose(w) ==
    /\ ProcessAlive
    /\ wpc[w] = "close"
    /\ closes' = [closes EXCEPT ![my_socket[w]] = @ + 1]
    /\ wpc' = [wpc EXCEPT ![w] = "done"]
    /\ UNCHANGED << setupVars, running, mainVars, handoffVars, my_socket, line, buffer, bi,
                    dispatched, wlog, peerVars, naccept, sent, proc >>

MainNext ==
    \/ MWhile \/ MSelectError \/ MSelectTimeout \/ MAcceptOk \/ MAcceptFail
    \/ MSpawn \/ MWaitEnter \/ MWaitTimeout \/ MWaitNotified \/ MWaitSpurious
    \/ MReapTest \/ MReapCheck \/ MJoin

HandoffNext(w) == WClaim(w) \/ WUnlock(w) \/ WNotify(w)

ConnectionNext(w) ==
    \/ WPrompt(w) \/ WLoop(w) \/ WSelectError(w) \/ WSelectTimeout(w)
    \/ WRecvError(w) \/ WRecvEof(w) \/ WRecvData(w) \/ WProcess(w) \/ WClose(w)

PeerNext == CConnect \/ (\E c \in Conns : CSend(c, Menu) \/ CClose(c))

Next ==
    \/ MainNext
    \/ \E w \in Workers : HandoffNext(w) \/ ConnectionNext(w)
    \/ PeerNext

Spec == Init /\ [][Next]_vars

\* The process under weak fairness of main() and of every worker thread: a
\* thread that can take a step is scheduled.  Which way a select(), recv(),
\* accept() or wait_for() returns is not forced, and the peers are free.
FairSpec ==
    /\ Spec
    /\ WF_vars(MainNext)
    /\ \A w \in Workers : WF_vars(HandoffNext(w) \/ ConnectionNext(w))

\* ------------------------------------------- connection() on one socket
\* ex() runs in the worker of another connection
ExElsewhere ==
    /\ running
    /\ running' = FALSE
    /\ UNCHANGED << setupVars, mainVars, handoffVars, workerVars, peerVars, naccept, logVars >>

\* The handoff of connection 1 is over: its worker enters connection(1)
InitConn ==
    /\ InitCommon
    /\ mainPc = "while"
    /\ threads = <<1>>
    /\ client_socket = 1
    /\ wpc = [w \in Workers |-> IF w = 1 THEN "prompt" ELSE "idle"]
    /\ my_socket = [w \in Workers |-> IF w = 1 THEN 1 ELSE NoSocket]
    /\ nconn = 1
    /\ naccept = 1
    /\ quota = [c \in Conns |-> IF c = 1 THEN LineSends ELSE 0]

NextConn ==
    \/ ConnectionNext(1)
    \/ CSend(1, LineMenu)
    \/ CClose(1)
    \/ ExElsewhere

ConnSpec == InitConn /\ [][NextConn]_vars

\* ------------------------------------------------- CommandLine::Parse alone
\* The arguments of the command lines given to a CommandLine that has an
\* option with only a short name, -v, without a value, and an option --name
\* (-n) that requires one
Long(name, val, text) == [kind |-> "long", name |-> name, val |-> val, text |-> text]
Short(name, text) == [kind |-> "short", name |-> name, val |-> <<>>, text |-> text]
Word(text) == [kind |-> "word", name |-> NoName, val |-> <<>>, text |-> text]

ParseArgs ==
    { Long("name", <<>>, <<45,45,110,97,109,101>>),          \* --name
      Long("name", << <<120>> >>, <<45,45,110,97,109,101,61,120>>),   \* --name=x
      Short("v", <<45,118>>),                                  \* -v
      Long("bogus", <<>>, <<45,45,98,111,103,117,115>>),       \* --bogus
      Word(<<120>>) }                                          \* x

Argvs(args) == UNION { [1..n -> args] : n \in 0..MaxArgs }

\* The option lists: -v and --name in either order, or one of them, each
\* with any requirement and any occurrence rule
Added(opts, long_name, short_name, has_value) ==
    { AddOption(opts, long_name, short_name, required, has_value, occurs_type, occurs_value) :
        required \in BOOLEAN, occurs_type \in {"AtLeast", "AtMost", "Exactly"},
        occurs_value \in 1..MaxOccurs }

AddedV(lists) == UNION { Added(opts, NoName, "v", "No") : opts \in lists }
AddedName(lists) == UNION { Added(opts, "name", "n", "Required") : opts \in lists }

OptionLists ==
    AddedV({<<>>}) \cup AddedName({<<>>}) \cup AddedName(AddedV({<<>>})) \cup AddedV(AddedName({<<>>}))

\* A CommandLine with its options added, before Parse is called on argv
InitParse ==
    /\ options \in OptionLists
    /\ argv \in Argvs(ParseArgs)
    /\ error_message = <<>>
    /\ rc = "unset"
    /\ host_ptr = "null"
    /\ addr = <<>>
    /\ mlog = ""
    /\ running = TRUE
    /\ mainPc = "parse"
    /\ threads = <<>>
    /\ reapIdx = 1
    /\ joinIdx = 1
    /\ listenOpen = FALSE
    /\ client_socket = NoSocket
    /\ scopeOf = 0
    /\ clOwns = FALSE
    /\ cvNotified = FALSE
    /\ wpc = [w \in Workers |-> "idle"]
    /\ my_socket = [w \in Workers |-> NoSocket]
    /\ line = [w \in Workers |-> <<>>]
    /\ buffer = [w \in Workers |-> <<>>]
    /\ bi = [w \in Workers |-> 1]
    /\ dispatched = [w \in Workers |-> <<>>]
    /\ wlog = [w \in Workers |-> ""]
    /\ nconn = 0
    /\ naccept = 0
    /\ inq = [c \in Conns |-> <<>>]
    /\ peerClosed = [c \in Conns |-> FALSE]
    /\ quota = [c \in Conns |-> 0]
    /\ closes = [f \in Fds |-> 0]
    /\ sent = [f \in Fds |-> <<>>]
    /\ proc = [f \in Fds |-> <<>>]

\* Parse(argc, argv, error_message) on that CommandLine
CallParse ==
    /\ rc = "unset"
    /\ \E r \in {Parse(options, argv, error_message)} :
          /\ options' = r.options
          /\ error_message' = r.error_message
          /\ rc' = IF r.rc THEN "true" ELSE "false"
    /\ UNCHANGED << argv, host_ptr, addr, mlog, running, mainVars, handoffVars,
                    workerVars, peerVars, naccept, logVars >>

NextParse == CallParse

ParseSpec == InitParse /\ [][NextParse]_vars

\* ------------------------------------------------ main() from its first line
\* The arguments given to the server
SetupArgs ==
    { Long("port", <<>>, <<45,45,112,111,114,116>>),         \* --port
      Long("host", <<>>, <<45,45,104,111,115,116>>),         \* --host
      Short("p", <<45,112>>),                                  \* -p
      Long("bogus", <<>>, <<45,45,98,111,103,117,115>>),       \* --bogus
      Word(<<56,48>>),                                         \* 80
      Word(<<55,48,48,48,48>>),                                \* 70000
      Word(<<120>>) }                                          \* x

\* main() is entered: line 291, the options are added
InitSetup ==
    /\ argv \in Argvs(SetupArgs)
    /\ options = MainOptions
    /\ error_message = <<>>
    /\ rc = "unset"
    /\ host_ptr = "null"
    /\ addr = <<>>
    /\ mlog = ""
    /\ running = TRUE
    /\ mainPc = "parse"
    /\ threads = <<>>
    /\ reapIdx = 1
    /\ joinIdx = 1
    /\ listenOpen = FALSE
    /\ client_socket = NoSocket
    /\ scopeOf = 0
    /\ clOwns = FALSE
    /\ cvNotified = FALSE
    /\ wpc = [w \in Workers |-> "idle"]
    /\ my_socket = [w \in Workers |-> NoSocket]
    /\ line = [w \in Workers |-> <<>>]
    /\ buffer = [w \in Workers |-> <<>>]
    /\ bi = [w \in Workers |-> 1]
    /\ dispatched = [w \in Workers |-> <<>>]
    /\ wlog = [w \in Workers |-> ""]
    /\ nconn = 0
    /\ naccept = 0
    /\ inq = [c \in Conns |-> <<>>]
    /\ peerClosed = [c \in Conns |-> FALSE]
    /\ quota = [c \in Conns |-> 0]
    /\ closes = [f \in Fds |-> 0]
    /\ sent = [f \in Fds |-> <<>>]
    /\ proc = [f \in Fds |-> <<>>]

\* main() up to the start of the first worker, with clients that connect
NextSetup ==
    \/ SetupNext
    \/ MWhile \/ MSelectError \/ MSelectTimeout \/ MReapTest
    \/ MAcceptOk \/ MAcceptFail \/ MSpawn
    \/ MJoin
    \/ CConnect

SetupSpec == InitSetup /\ [][NextSetup]_vars

\* --------------------------------------- connection() at the end of a line
RECURSIVE Flatten(_)
Flatten(ps) == IF ps = <<>> THEN <<>> ELSE Head(ps) \o Flatten(Tail(ps))

\* The lines of at most MaxPieces pieces
Lines == { Flatten(ps) : ps \in UNION { [1..n -> LinePieces] : n \in 0..MaxPieces } }

\* The worker of connection 1 has received, echoed and accumulated the bytes
\* of a line, and recv() has just returned the bytes that end it
InitLine ==
    /\ SetupDone
    /\ running = TRUE
    /\ mainPc = "while"
    /\ threads = <<1>>
    /\ reapIdx = 1
    /\ joinIdx = 1
    /\ listenOpen = TRUE
    /\ client_socket = 1
    /\ scopeOf = 0
    /\ clOwns = FALSE
    /\ cvNotified = FALSE
    /\ wpc = [w \in Workers |-> IF w = 1 THEN "process" ELSE "idle"]
    /\ my_socket = [w \in Workers |-> IF w = 1 THEN 1 ELSE NoSocket]
    /\ \E ln \in Lines :
          /\ line = [w \in Workers |-> IF w = 1 THEN ln ELSE <<>>]
          /\ sent = [f \in Fds |-> IF f = 1
                                    THEN Tag(1, <<PROMPT0>> \o [k \in DOMAIN ln |-> <<ln[k]>>])
                                    ELSE <<>>]
          /\ proc = [f \in Fds |-> IF f = 1
                                    THEN [k \in DOMAIN ln |-> [by |-> 1, chr |-> ln[k]]]
                                    ELSE <<>>]
    /\ \E e \in LineEnds :
          buffer = [w \in Workers |-> IF w = 1 THEN e ELSE <<>>]
    /\ bi = [w \in Workers |-> 1]
    /\ dispatched = [w \in Workers |-> <<>>]
    /\ wlog = [w \in Workers |-> ""]
    /\ nconn = 1
    /\ naccept = 1
    /\ inq = [c \in Conns |-> <<>>]
    /\ peerClosed = [c \in Conns |-> FALSE]
    /\ quota = [c \in Conns |-> 0]
    /\ closes = [f \in Fds |-> 0]

NextLine == WProcess(1) \/ WLoop(1) \/ WSelectTimeout(1) \/ WClose(1)

LineSpec == InitLine /\ [][NextLine]_vars

\* ------------------------------------------------------------ observations
\* The worker has copied its descriptor
Claimed(w) == wpc[w] \notin {"idle", "claim"}

\* The worker is inside or past connection(), after the first prompt
Started(w) == wpc[w] \in {"loop", "select", "process", "close", "done"}

\* The payloads of the send() calls of worker w, in order
SentBy(w) ==
    LET Mine(e) == e.by = w
        f == SelectSeq(sent[my_socket[w]], Mine)
    IN [k \in DOMAIN f |-> f[k].data]

\* The bytes worker w took in its for loop, in order
ProcBy(w) ==
    LET Mine(e) == e.by = w
        f == SelectSeq(proc[my_socket[w]], Mine)
    IN [k \in DOMAIN f |-> f[k].chr]

\* Some worker has dispatched a line with an EX token
ExDispatched ==
    \E w \in Workers : \E k \in DOMAIN dispatched[w] :
        \E t \in DOMAIN Tokens(dispatched[w][k]) :
            ToUpper(Tokens(dispatched[w][k])[t]) = <<69, 88>>

\* Every worker that was started has closed its descriptor and returned
AllWorkersClosed == \A w \in Workers : wpc[w] # "idle" => wpc[w] = "done"

\* The only thing the workers have met so far is peers that disconnected
OnlyDisconnects ==
    /\ ~ExDispatched
    /\ \A w \in Workers : wlog[w] \in {"", "Connection closed by client"}

\* What connection() does on the bytes it takes, from its first prompt on:
\* the for loop body folded over the bytes
RECURSIVE ReplayFrom(_, _)
ReplayFrom(st, bytes) ==
    IF bytes = <<>> THEN st
    ELSE LET r == ProcessChar(st.line, Head(bytes)) IN
         ReplayFrom([ line |-> r.line,
                      sent |-> st.sent \o r.sends,
                      dispatched |-> st.dispatched \o r.dispatch ],
                    Tail(bytes))

Replay(bytes) ==
    ReplayFrom([line |-> <<>>, sent |-> <<PROMPT0>>, dispatched |-> <<>>], bytes)

\* The payloads sent on descriptor c and the bytes taken from it, in order
Output(c) == [k \in DOMAIN sent[c] |-> sent[c][k].data]
Input(c) == [k \in DOMAIN proc[c] |-> proc[c][k].chr]

\* ------------------------------------------------------------------ claims

\* C1: once an EX token has been dispatched on some connection, the accept
\* loop is left, every worker that was started closes its socket and returns,
\* and main() returns with the listening socket closed.
C1_Orig ==
    ExDispatched ~> (mainPc = "done" /\ ~listenOpen /\ AllWorkersClosed)

\* C2: an I/O failure of a worker (select error, recv error, end of stream)
\* leaves ShutdownFlag alone: as long as no EX token was dispatched the
\* flag is not set, whatever the workers have logged.
C2_Orig ==
    ((\E w \in Workers : wlog[w] # "") /\ ~ExDispatched) => running

\* C3: after peers have disconnected (and nothing else has happened: no EX,
\* no other I/O error) the accept loop is still running, it has not gone on
\* to the final join.
C3_Orig ==
    OnlyDisconnects => mainPc \notin {"join", "done"}

\* C4: no descriptor is served by two workers (the part of the claim that
\* the handoff gives each accepted descriptor to one worker only).
C4_Orig ==
    \A w1, w2 \in Workers :
        (w1 # w2 /\ Claimed(w1) /\ Claimed(w2) /\ my_socket[w1] = my_socket[w2])
            => my_socket[w1] = NoSocket

\* C5: the handoff wait always ends: main() at or in cv.wait_for eventually
\* is back in its poll loop.
C5_Orig ==
    (mainPc \in {"wait", "waiting"}) ~> (mainPc \notin {"wait", "waiting"})

\* C6: a reap pass always finishes, also with a worker still running in the
\* registry: main() in the reap pass eventually is out of it.
C6_Orig ==
    (mainPc \in {"reapTest", "reapCheck"}) ~> (mainPc \notin {"reapTest", "reapCheck"})

\* C7: what the server sends on a connection is a function of the bytes it
\* took from that connection alone: the first prompt followed by what the
\* line protocol answers to those bytes, one response per DIR.
C7_Orig ==
    \A c \in Conns : sent[c] # <<>> => Output(c) = Replay(Input(c)).sent

\* ------------------------------------- the line protocol, in the claims' terms
\* A printable byte (0x20 to 0x7e) and a line terminator
Printable(b) == b \in 32..126
Terminator(b) == b \in {13, 10}
Kept(b) == Printable(b) \/ Terminator(b)

\* The first prompt ">>", the prompt after a terminator "\r\n>>", the line
\* break before a response "\r\n"
IsFirstPrompt(m) == m = <<62, 62>>
IsLinePrompt(m) == m = <<13, 10, 62, 62>>
IsBreak(m) == m = <<13, 10>>
IsEcho(m) == Len(m) = 1

\* How many of the first n elements of seq satisfy P
CountIf(seq, P(_), n) == Cardinality({k \in 1..n : P(seq[k])})

Count(seq, P(_)) == CountIf(seq, P, Len(seq))

\* The position of the n-th terminator of the bytes pr
TermPos(pr, n) ==
    CHOOSE t \in 1..Len(pr) : Terminator(pr[t]) /\ CountIf(pr, Terminator, t) = n

\* The bytes echoed, in order
Echoes(out) ==
    LET f == SelectSeq(out, IsEcho) IN [k \in DOMAIN f |-> f[k][1]]

\* C8: a worker has sent no prompt before it starts, and from then on one
\* first prompt and one line prompt for each terminator byte it has
\* processed, whether the line was empty or not.
C8_Prompts ==
    \A w \in Workers :
        LET out == SentBy(w) IN
        IF Started(w)
           THEN /\ Count(out, IsFirstPrompt) = 1
                /\ IsFirstPrompt(out[1])
                /\ Count(out, IsLinePrompt) = Count(ProcBy(w), Terminator)
           ELSE Count(out, IsFirstPrompt) + Count(out, IsLinePrompt) = 0

\* A worker has processed two terminators, one ending a line and one on an
\* empty line
C8_Witness ==
    /\ Started(1)
    /\ Count(ProcBy(1), Terminator) = 2
    /\ Len(dispatched[1]) = 1

\* C9: the bytes a worker echoes are the printable bytes it processed, once
\* each and in that order; at the prompt of the n-th terminator the echoes
\* sent are those of the printable bytes before that terminator; and a
\* response follows its line break and is followed by the prompt.
C9_EchoOrder ==
    \A w \in Workers :
        LET out == SentBy(w)
            pr == ProcBy(w)
        IN /\ Echoes(out) = SelectSeq(pr, Printable)
           /\ \A j \in DOMAIN out :
                 IsLinePrompt(out[j]) =>
                    LET n == CountIf(out, IsLinePrompt, j) IN
                    /\ n <= Count(pr, Terminator)
                    /\ CountIf(out, IsEcho, j) = CountIf(pr, Printable, TermPos(pr, n))
           /\ \A j \in DOMAIN out :
                 IsBreak(out[j]) =>
                    /\ j + 2 <= Len(out)
                    /\ ~IsEcho(out[j + 1])
                    /\ IsLinePrompt(out[j + 2])

\* A worker echoed "dir", answered the line and echoed a byte of the next line
C9_Witness ==
    \E j \in DOMAIN SentBy(1) :
        /\ SentBy(1)[j] = DirOutput
        /\ j + 2 <= Len(SentBy(1))
        /\ IsEcho(SentBy(1)[j + 2])

\* C10: the bytes that are neither printable nor CR/LF leave no trace: what a
\* worker has sent, its line buffer and the lines it has dispatched are those
\* of the same bytes with the dropped bytes taken out.
C10_Dropped ==
    \A w \in Workers :
        Started(w) =>
            LET ref == Replay(SelectSeq(ProcBy(w), Kept)) IN
            /\ SentBy(w) = ref.sent
            /\ line[w] = ref.line
            /\ dispatched[w] = ref.dispatched

\* A worker took "dir", BEL and CR and dispatched the line "dir"
C10_Witness ==
    /\ ProcBy(1) = <<100, 105, 114, 7, 13>>
    /\ dispatched[1] = << <<100, 105, 114>> >>

\* ------------------------------------------ dispatch, in the claims' terms
\* The placeholder line of DIR: "Directory..." and a line feed
Placeholder == <<68, 105, 114, 101, 99, 116, 111, 114, 121, 46, 46, 46, 10>>

\* A word of ln is a maximal run of bytes other than the space; the lines
\* hold printable bytes only, of which the space is the one whitespace
WordStart(ln, k) == ln[k] # 32 /\ (k = 1 \/ ln[k - 1] = 32)
WordEnd(ln, k) == ln[k] # 32 /\ (k = Len(ln) \/ ln[k + 1] = 32)

\* The word of three bytes that starts at k, if there is one
IsWord3(ln, k) == WordStart(ln, k) /\ k + 2 <= Len(ln) /\ WordEnd(ln, k + 2)

\* A word equal to DIR, to EX, whatever the case of its letters
IsDirWord(ln, k) ==
    /\ IsWord3(ln, k)
    /\ ln[k] \in {68, 100} /\ ln[k + 1] \in {73, 105} /\ ln[k + 2] \in {82, 114}

IsExWord(ln, k) ==
    /\ WordStart(ln, k) /\ k + 1 <= Len(ln) /\ WordEnd(ln, k + 1)
    /\ ln[k] \in {69, 101} /\ ln[k + 1] \in {88, 120}

DirWords(ln) == Cardinality({k \in DOMAIN ln : IsDirWord(ln, k)})
ExWords(ln) == Cardinality({k \in DOMAIN ln : IsExWord(ln, k)})

RECURSIVE Repeat(_, _)
Repeat(m, n) == IF n = 0 THEN <<>> ELSE m \o Repeat(m, n - 1)

\* The responses sent: the payloads that follow a line break, in order
Responses(out) ==
    LET AfterBreak(e) == IsBreak(e.prev)
        f == SelectSeq([j \in DOMAIN out |->
                          [prev |-> IF j = 1 THEN <<>> ELSE out[j - 1], m |-> out[j]]],
                       AfterBreak)
    IN [k \in DOMAIN f |-> f[k].m]

NonEmpty(m) == m # <<>>

\* C11: the response to a line is the placeholder line once for each word of
\* the line (maximal run of non-blank bytes) that is DIR in any case, in
\* order and with nothing between; the responses a worker has sent are those
\* of the lines it dispatched that have such a word.
C11_Response ==
    \A w \in Workers :
        LET exp == [k \in DOMAIN dispatched[w] |->
                       Repeat(Placeholder, DirWords(dispatched[w][k]))]
        IN Responses(SentBy(w)) = SelectSeq(exp, NonEmpty)

\* The line " dir  DIR " was dispatched and answered by the placeholder twice
C11_Witness ==
    /\ dispatched[1] = << <<32, 100, 105, 114, 32, 32, 68, 73, 82, 32>> >>
    /\ Responses(SentBy(1)) = << Placeholder \o Placeholder >>

\* C12: the run of the accept loop does not end (the listening socket is not
\* closed, the process does not exit) before ShutdownFlag is set.
C12_Orig ==
    (~ProcessAlive \/ ~listenOpen) => ~running

\* A step in which accept() returns a connection, in which a worker is spawned
AcceptStep == naccept' # naccept
SpawnStep == Len(threads') > Len(threads)

\* C13 as stated: with ShutdownFlag set there is no accept and no spawn.
C13_Orig ==
    [][~running => ~(AcceptStep \/ SpawnStep)]_vars

\* C13, amended: the accept loop starts no iteration once its test has read
\* ShutdownFlag as set.  A test that reads the flag as set leaves the loop
\* for the final join, from where main() neither accepts nor spawns nor
\* returns to the loop; an accept or a spawn is a step of an iteration whose
\* test read the flag as not set.
C13_NoNewIteration ==
    [][ /\ (mainPc = "while" /\ ~running /\ mainPc' # "while") => mainPc' = "join"
        /\ (mainPc \in {"join", "done"}) =>
               (~AcceptStep /\ ~SpawnStep /\ mainPc' \in {"join", "done", "aborted"})
        /\ (AcceptStep \/ SpawnStep) => mainPc \in {"select", "spawn"} ]_vars

\* main() has returned and a connection that arrived was never accepted
C13_Witness == mainPc = "done" /\ naccept < nconn

\* C14: a connection socket handed to a worker is closed by that worker
\* only, so never twice.
C14_Orig ==
    \A c \in Conns : closes[c] <= 1

\* C15: ShutdownFlag is monotone: no step of main() or of a worker sets
\* running back to true once it is false, and a step that sets it again
\* leaves it false.
C15_Monotone ==
    [][~running => ~running']_vars

\* The flag was set more than once: an EX token was dispatched and a worker
\* met an I/O failure
C15_Witness ==
    ~running /\ ExDispatched /\ (\E w \in Workers : wlog[w] # "")

\* C16: once ShutdownFlag is set, every worker that was started eventually
\* has left its loop, closed its socket and returned.
C16_Orig ==
    ~running ~> AllWorkersClosed

\* No peer has closed its connection and no worker has met an I/O failure
PeersIdle ==
    /\ \A c \in Conns : ~peerClosed[c]
    /\ \A w \in Workers : wlog[w] = ""

\* C17: while ShutdownFlag is not set and the peers have neither closed nor
\* caused an I/O error, a worker that was started has not exited (it has not
\* returned, it has not thrown and the process runs) and no connection socket
\* has been closed.
C17_Orig ==
    (running /\ PeersIdle) =>
        /\ \A w \in Workers :
               wpc[w] # "idle" => (wpc[w] \notin {"close", "done", "threw"} /\ ProcessAlive)
        /\ \A c \in Conns : closes[c] = 0

\* ------------------------------------------- one step of the for loop
\* Worker w passes a line to connection_command in this step; the line
DispatchStep(w) == Len(dispatched'[w]) = Len(dispatched[w]) + 1
DispatchedLine(w) == dispatched'[w][Len(dispatched'[w])]

\* Worker w takes a byte in this step; the byte
ByteStep(w) ==
    /\ Len(ProcBy(w)') = Len(ProcBy(w)) + 1
    /\ my_socket'[w] = my_socket[w]
TakenByte(w) == ProcBy(w)'[Len(ProcBy(w)')]

\* The payloads of the send() calls of worker w in this step
NewSends(w) ==
    LET a == SentBy(w)
        b == SentBy(w)'
    IN [k \in 1..(Len(b) - Len(a)) |-> b[Len(a) + k]]

\* C18: the step that dispatches a line sends CR LF and the response when the
\* response is not empty, and then the prompt CR LF ">>", and nothing else; for
\* a line with no word of the command table it sends the prompt only, logs
\* no error, leaves ShutdownFlag and the sockets as they are and the worker
\* in its for loop.
C18_LineAnswer ==
    [][ \A w \in Workers :
          DispatchStep(w) =>
             LET ln == DispatchedLine(w)
                 resp == Repeat(Placeholder, DirWords(ln))
             IN /\ NewSends(w) = (IF resp # <<>> THEN << <<13, 10>>, resp >> ELSE <<>>)
                                     \o << <<13, 10, 62, 62>> >>
                /\ (DirWords(ln) = 0 /\ ExWords(ln) = 0) =>
                      /\ NewSends(w) = << <<13, 10, 62, 62>> >>
                      /\ running' = running
                      /\ wlog' = wlog
                      /\ closes' = closes
                      /\ wpc' = wpc ]_vars

\* The line "dirDIR eXeX" was dispatched; the flag is not set and the worker
\* polls again
C18_Witness ==
    /\ dispatched[1] = << <<100, 105, 114, 68, 73, 82, 32, 101, 88, 101, 88>> >>
    /\ SentBy(1)[Len(SentBy(1))] = <<13, 10, 62, 62>>
    /\ IsEcho(SentBy(1)[Len(SentBy(1)) - 1])
    /\ running
    /\ wpc[1] = "select"

\* C19: a terminator taken with an empty line buffer dispatches nothing,
\* sends the prompt only and leaves ShutdownFlag as it is; after any
\* terminator is taken the line buffer is empty.
C19_EmptyLine ==
    [][ \A w \in Workers :
          (ByteStep(w) /\ Terminator(TakenByte(w))) =>
             /\ line'[w] = <<>>
             /\ line[w] = <<>> =>
                   /\ dispatched' = dispatched
                   /\ NewSends(w) = << <<13, 10, 62, 62>> >>
                   /\ running' = running ]_vars

\* CR LF ended a line: the line was dispatched once, at the CR, and the LF
\* found the buffer empty
C19_Witness ==
    /\ Len(ProcBy(1)) >= 3
    /\ SubSeq(ProcBy(1), Len(ProcBy(1)) - 1, Len(ProcBy(1))) = <<13, 10>>
    /\ Len(dispatched[1]) = 1
    /\ Count(SentBy(1), IsLinePrompt) = 2
    /\ line[1] = <<>>

\* C20: the step that dispatches a line leaves ShutdownFlag set if it was,
\* sets it when the line has a word EX (in any case) and only then; the
\* bytes sent are the placeholder line once per word DIR and nothing for EX,
\* also for the words DIR that follow an EX; nothing is logged or closed.
C20_ExDir ==
    [][ \A w \in Workers :
          DispatchStep(w) =>
             LET ln == DispatchedLine(w) IN
             /\ running' = (running /\ ExWords(ln) = 0)
             /\ Responses(NewSends(w)) =
                   (IF DirWords(ln) > 0 THEN << Repeat(Placeholder, DirWords(ln)) >> ELSE <<>>)
             /\ Len(NewSends(w)) = (IF DirWords(ln) > 0 THEN 3 ELSE 1)
             /\ wlog' = wlog
             /\ closes' = closes ]_vars

\* The line "eX dir" was dispatched: the flag is set and the placeholder line
\* was sent
C20_Witness ==
    /\ dispatched[1] = << <<101, 88, 32, 100, 105, 114>> >>
    /\ Responses(SentBy(1)) = << Placeholder >>
    /\ ~running

\* main() leaves its select()/accept() with neither a connection accepted
\* nor a timeout: select() or accept() failed
PollFailStep ==
    /\ mainPc = "select"
    /\ mainPc' # mainPc
    /\ mainPc' # "reapTest"
    /\ ~AcceptStep

\* C21: a failure of select() or accept() on the listening socket is not
\* fatal: the step leaves ShutdownFlag, the registry, the workers and the
\* listening socket as they are and goes back to the loop test.
C21_NotFatal ==
    [][ PollFailStep =>
          /\ mainPc' = "while"
          /\ running' = running
          /\ threads' = threads
          /\ wpc' = wpc
          /\ listenOpen' = listenOpen ]_vars

\* After one connection was accepted, accept() failed for the next and
\* main() polls again
C21_Witness ==
    /\ mainPc = "select"
    /\ running
    /\ client_socket = NoSocket
    /\ naccept = 1
    /\ nconn = 2
    /\ Len(threads) = 1

\* ------------------------------------------------- the command line, claims
\* The arguments of av from k on that stand for an option, as the user wrote
\* them: an option that requires a value has it after "=" or in the next
\* argument.  bad: the name is not an option of opts, or the value is missing.
RECURSIVE Scan(_, _, _)
Scan(opts, av, k) ==
    IF k > Len(av) THEN <<>>
    ELSE
      LET a == av[k]
          Named(o) == IF a.kind = "long" THEN o.long_name = a.name ELSE o.short_name = a.name
          known == \E j \in DOMAIN opts : Named(opts[j])
          requires == \E j \in DOMAIN opts : Named(opts[j]) /\ opts[j].has_value = "Required"
          Here(bad, val) == << [at |-> k, bad |-> bad, val |-> val] >>
      IN IF a.kind = "word" THEN Scan(opts, av, k + 1)
         ELSE IF ~known THEN Here(TRUE, <<>>) \o Scan(opts, av, k + 1)
         ELSE IF ~requires THEN Here(FALSE, <<>>) \o Scan(opts, av, k + 1)
         ELSE IF a.val # <<>> THEN Here(FALSE, a.val) \o Scan(opts, av, k + 1)
         ELSE IF k < Len(av) THEN Here(FALSE, <<av[k + 1].text>>) \o Scan(opts, av, k + 2)
         ELSE Here(TRUE, <<>>)

\* An argument is an unknown option, or an option without the value it requires
BadArgument == \E i \in DOMAIN Scan(options, argv, 1) : Scan(options, argv, 1)[i].bad

Returned == rc # "unset"

\* The values given to option o, in the long or the short form, one entry
\* per occurrence
OccurrencesOf(o) ==
    LET sc == Scan(options, argv, 1)
        Is(e) == /\ ~e.bad
                 /\ \/ argv[e.at].kind = "long" /\ argv[e.at].name = o.long_name
                    \/ argv[e.at].kind = "short" /\ argv[e.at].name = o.short_name
    IN SelectSeq(sc, Is)

\* count satisfies the occurrence rule of o
RuleHolds(o) ==
    CASE o.occurs_type = "AtLeast" -> o.count >= o.occurs_value
      [] o.occurs_type = "AtMost" -> o.count <= o.occurs_value
      [] o.occurs_type = "Exactly" -> o.count = o.occurs_value

\* C24: when an argument is an unknown option, or an option that requires a
\* value has none, Parse returns false and an error message is written.
C24_Orig ==
    (Returned /\ BadArgument) => (rc = "false" /\ error_message # <<>>)

\* C25 as stated: Parse returns true exactly when every option's count
\* satisfies its occurrence rule, a count of 0 included, and every required
\* option occurs.
C25_Orig ==
    Returned =>
      ( rc = "true" <=>
          \A k \in DOMAIN options :
              RuleHolds(options[k]) /\ (options[k].required => options[k].count >= 1) )

\* C25: Parse returns true exactly when every option that was not counted is
\* not required and the count of every option that was counted satisfies its
\* occurrence rule.
C25_Occurs ==
    Returned =>
      ( rc = "true" <=>
          \A k \in DOMAIN options :
              IF options[k].count = 0 THEN ~options[k].required
                                      ELSE RuleHolds(options[k]) )

\* Parse accepted a command line on which an optional option that must occur
\* at least twice does not occur, and rejected one for a count above 0
C25_Witness ==
    /\ rc = "true"
    /\ \E k \in DOMAIN options :
          /\ options[k].count = 0 /\ ~options[k].required
          /\ options[k].occurs_type = "AtLeast" /\ options[k].occurs_value = 2
    /\ \E k \in DOMAIN options :
          /\ options[k].count = 2
          /\ options[k].occurs_type = "Exactly" /\ options[k].occurs_value = 2

\* C29: after Parse, the count of every option with a long name is the number
\* of its occurrences on the command line, and its values are theirs in order.
C29_Orig ==
    Returned =>
      \A k \in DOMAIN options :
          options[k].long_name # NoName =>
            LET occ == OccurrencesOf(options[k]) IN
              /\ options[k].count = Len(occ)
              /\ options[k].value = Flatten([i \in DOMAIN occ |-> occ[i].val])

\* ------------------------------------------------------- startup, claims
\* The option of cmd_run with this long name, and the values given to it on
\* the command line
OptionNamed(name) == options[CHOOSE k \in DOMAIN options : options[k].long_name = name]

GivenValues(name) ==
    LET occ == OccurrencesOf(OptionNamed(name)) IN Flatten([i \in DOMAIN occ |-> occ[i].val])

HostGiven == GivenValues("host") # <<>>
PortGiven == GivenValues("port") # <<>>

\* The number a text of decimal digits denotes, -1 for any other text
RECURSIVE DecimalFrom(_, _)
DecimalFrom(text, acc) ==
    IF text = <<>> THEN acc
    ELSE IF Head(text) \notin 48..57 THEN -1
    ELSE DecimalFrom(Tail(text), acc * 10 + (Head(text) - 48))

Decimal(text) == IF text = <<>> THEN -1 ELSE DecimalFrom(text, 0)

GivenPort == Decimal(GivenValues("port")[1])

Bound == addr # <<>>

\* main() is in its accept loop, lines 339-398
InAcceptLoop ==
    mainPc \notin {"parse", "resolve", "socket", "bind", "listen", "join", "done", "aborted"}

\* Startup failed: the options were not parsed or are not valid, the host was
\* not resolved, socket(), bind() or listen() failed, or the port is no number
SetupFailed ==
    \/ Returned /\ (rc = "false" \/ BadArgument)
    \/ mlog # ""
    \/ mainPc = "aborted"

\* C22: after a setup failure main() is not in the accept loop, has accepted
\* no connection and started no worker, and when the process has ended the
\* listening socket is not open.
C22_Orig ==
    SetupFailed =>
      /\ ~InAcceptLoop
      /\ naccept = 0
      /\ threads = <<>>
      /\ (~ProcessAlive => ~listenOpen)

\* C23 as stated: the address given to bind() has port 8023 without a port
\* option and the given port with one, and the any-address without a host
\* option or with a host that was not resolved; no startup is aborted for a
\* host that was not resolved.
C23_Orig ==
    /\ mlog # "Failed to resolve host"
    /\ Bound =>
          /\ addr[1].sin_port = (IF PortGiven THEN GivenPort ELSE DEFAULT_PORT)
          /\ (~HostGiven \/ host_ptr = "null") => addr[1].sin_addr = DEFAULT_IP

\* C23: the address given to bind() has port 8023 without a port option and
\* the given decimal port modulo 65536 with one; it is the any-address
\* without a host option or when the lookup returned no result without an
\* error, and the address found otherwise; when the lookup returned an
\* error nothing is bound and main() leaves for its end.
C23_Bind ==
    /\ Bound =>
          /\ ~PortGiven => addr[1].sin_port = DEFAULT_PORT
          /\ (PortGiven /\ GivenPort >= 0) => addr[1].sin_port = GivenPort % PortRange
          /\ addr[1].sin_addr = (IF HostGiven /\ host_ptr = "addr" THEN "h_addr_list[0]"
                                                                  ELSE DEFAULT_IP)
    /\ mlog = "Failed to resolve host" =>
          /\ HostGiven /\ ~Bound /\ ~listenOpen
          /\ mainPc \in {"join", "done"}

\* bind() was given the any-address and the default port for a host that was
\* given and looked up without a result
C23_Witness ==
    /\ Bound /\ HostGiven /\ ~PortGiven /\ host_ptr = "null"
    /\ addr[1] = [sin_port |-> DEFAULT_PORT, sin_addr |-> DEFAULT_IP]
    /\ mainPc = "listen"

\* ------------------------------------------------------- leaving the loop
\* The worker has left the loop of connection(), or has ended
LeftLoop(w) == wpc[w] \in {"close", "done", "threw"}

\* C26: when a worker has left its loop or has ended, or a connection socket
\* has been closed by the server, ShutdownFlag is set.
C26_Orig ==
    ( \/ \E w \in Workers : LeftLoop(w)
      \/ \E f \in Fds : closes[f] > 0 ) => ~running

\* ------------------------------------------------- shutdown and the chunks
\* Worker w receives a chunk in this step
RecvStep(w) == wpc[w] = "select" /\ wpc'[w] = "process"

\* Worker w leaves the for loop only behind the last byte of its chunk, and
\* after its loop it neither dispatches nor changes its line
ChunkSteps(w) ==
    /\ (wpc[w] = "process" /\ wpc'[w] # "process") =>
          (bi[w] > Len(buffer[w]) /\ wpc'[w] = "loop")
    /\ LeftLoop(w) =>
          /\ LeftLoop(w)'
          /\ dispatched'[w] = dispatched[w]
          /\ line'[w] = line[w]
          /\ buffer'[w] = buffer[w]

\* C27 as stated: a worker handles its chunk to the last byte, dispatches
\* nothing after its loop, and receives no chunk once ShutdownFlag is set.
C27_Orig ==
    [][ \A w \in Workers : ChunkSteps(w) /\ (~running => ~RecvStep(w)) ]_vars

\* C27: a worker handles its chunk to the last byte whatever ShutdownFlag is,
\* dispatches nothing after its loop, and leaves its loop at the first test
\* of its loop that is made with ShutdownFlag set, so that it receives at most
\* the chunk of the turn it was in when the flag was set.
C27_BetweenChunks ==
    [][ \A w \in Workers :
          /\ ChunkSteps(w)
          /\ (~running /\ wpc[w] = "loop" /\ wpc'[w] # "loop") => wpc'[w] = "close" ]_vars

\* The worker has ended on a shutdown from elsewhere with "dir" in its line,
\* which was not dispatched
C27_Witness ==
    /\ ~running /\ wpc[1] = "done" /\ wlog[1] = ""
    /\ line[1] = <<100, 105, 114>>
    /\ dispatched[1] = <<>>

\* ------------------------------------------------------ the line buffer
\* The bytes echoed after the last prompt of out
LastPrompt(out) ==
    IF \E j \in DOMAIN out : IsFirstPrompt(out[j]) \/ IsLinePrompt(out[j])
       THEN CHOOSE j \in DOMAIN out :
                /\ IsFirstPrompt(out[j]) \/ IsLinePrompt(out[j])
                /\ \A i \in (j + 1)..Len(out) : ~(IsFirstPrompt(out[i]) \/ IsLinePrompt(out[i]))
       ELSE 0

EchoedSince(out) == Echoes(SubSeq(out, LastPrompt(out) + 1, Len(out)))

\* The bytes processed after the last terminator of pr
LastTerm(pr) ==
    IF Count(pr, Terminator) = 0 THEN 0 ELSE TermPos(pr, Count(pr, Terminator))

====
